---- MODULE Spec2Model ----
(***************************************************************************)
(* Model of the MAhub chat endpoint (src/api/chat.js): the request         *)
(* handler, the deterministic answer engine generateSmartAnswer and the    *)
(* context assemblers buildFocusedContext / buildContext, together with    *)
(* the earlier chat handler kept in src/api/admin-auth.js; of the           *)
(* knowledge search (src/unnamed/part_001); and of the Airtable connection *)
(* test and data fetch (src/api/airtable-config.js, airtable-data.js).     *)
(*                                                                         *)
(* Texts are TLA+ strings; JavaScript string operations (toLowerCase,      *)
(* split, includes, join, template literals) are modelled character by     *)
(* character.  Two characters of the source are outside ASCII and are      *)
(* written with ASCII stand-ins: the bullet U+2022 (Bullet) and the arrow  *)
(* U+2192 (Arrow).                                                         *)
(***************************************************************************)
EXTENDS Integers, Sequences, FiniteSets, TLC

\* ------------------------------------------------------------------------
\* Bounds of the model
\* ------------------------------------------------------------------------

\* largest number of vocabulary entries a question is made of
MaxPhrases == 4

\* largest number of FAQ entries in the knowledge document
MaxFaqs == 2

\* largest number of tables in the table list of an Airtable base
MaxTables == 3

\* ------------------------------------------------------------------------
\* JavaScript string primitives
\* ------------------------------------------------------------------------

CharAt(s, i) == SubSeq(s, i, i)

\* String.prototype.includes
Includes(s, t) ==
  \E i \in 1..(Len(s) - Len(t) + 1) : SubSeq(s, i, i + Len(t) - 1) = t

UpperCase == "ABCDEFGHIJKLMNOPQRSTUVWXYZ"

LowerCase == "abcdefghijklmnopqrstuvwxyz"

UpperCaseLetters == {CharAt(UpperCase, i) : i \in 1..Len(UpperCase)}

\* the lower-case form of one character
LowerChar(c) ==
  IF c \in UpperCaseLetters
  THEN CharAt(LowerCase, CHOOSE i \in 1..Len(UpperCase) : CharAt(UpperCase, i) = c)
  ELSE c

RECURSIVE LowerFrom(_, _)
\* the lower-case form of s from position i on: the text up to the next
\* upper-case letter is kept, the letter is replaced
LowerFrom(s, i) ==
  LET upper == {j \in i..Len(s) : CharAt(s, j) \in UpperCaseLetters}
  IN  IF upper = {} THEN SubSeq(s, i, Len(s))
      ELSE LET j == CHOOSE k \in upper : \A l \in upper : k <= l
           IN  SubSeq(s, i, j - 1) \o LowerChar(CharAt(s, j)) \o LowerFrom(s, j + 1)

\* String.prototype.toLowerCase
ToLowerCase(s) == LowerFrom(s, 1)

IsSpace(c) == c \in {" ", "\n", "\t"}

RECURSIVE SplitFrom(_, _, _)
SplitFrom(s, i, cur) ==
  IF i > Len(s) THEN <<cur>>
  ELSE IF IsSpace(CharAt(s, i))
       THEN IF i > 1 /\ IsSpace(CharAt(s, i - 1))
            THEN SplitFrom(s, i + 1, cur)
            ELSE <<cur>> \o SplitFrom(s, i + 1, "")
       ELSE SplitFrom(s, i + 1, cur \o CharAt(s, i))

\* s.split(/\s+/): a leading or trailing run of spaces yields an empty piece
SplitWhitespace(s) == SplitFrom(s, 1, "")

RECURSIVE ConcatAll(_)
\* the text a forEach loop appends: the pieces one after the other
ConcatAll(pieces) ==
  IF Len(pieces) = 0 THEN "" ELSE Head(pieces) \o ConcatAll(Tail(pieces))

RECURSIVE Join(_, _)
\* Array.prototype.join
Join(items, sep) ==
  IF Len(items) = 0 THEN ""
  ELSE IF Len(items) = 1 THEN Head(items)
  ELSE Head(items) \o sep \o Join(Tail(items), sep)

\* Array.prototype.map
Map(items, F(_)) == [i \in 1..Len(items) |-> F(items[i])]

\* a slice that keeps every item
Slice0_All(items, n) == items

\* Array.prototype.slice(0, n)
Slice0(items, n) == SubSeq(items, 1, IF Len(items) < n THEN Len(items) ELSE n)

\* an optional field of a JavaScript object is present
Has(obj, field) == field \in DOMAIN obj

\* stand-in for U+2022, the bullet of the answer templates
Bullet == "+"

\* stand-in for U+2192, the arrow of the data-flow answer template
Arrow == "=>"

\* ------------------------------------------------------------------------
\* The knowledge document (data/knowledge-base.json, parsed)
\* ------------------------------------------------------------------------

FaqLeadScoring ==
  [question |-> "How does lead scoring work?",
   answer   |-> "Leads are ranked by a score."]

FaqChannels ==
  [question |-> "Which Braze channels support lead scoring?",
   answer   |-> "Push, email and SMS."]

FaqPool == {FaqLeadScoring, FaqChannels}

\* the FAQ lists of the documents: every list of at most MaxFaqs different
\* pool entries
FaqLists ==
  {f \in UNION {[1..n -> FaqPool] : n \in 0..MaxFaqs} :
     \A i, j \in DOMAIN f : i # j => f[i] # f[j]}

\* an FAQ list longer than the three entries a focused context takes
LongFaqList ==
  <<FaqLeadScoring,
    [question |-> "Who owns the roadmap?", answer |-> "The MarTech team."],
    FaqChannels,
    [question |-> "What is a Hot lead?", answer |-> "A lead scoring 80 or more."],
    [question |-> "When are lead scores refreshed?", answer |-> "Every night."]>>

LeadScoreModel ==
  [name        |-> "Lead Score Model",
   description |-> "Ranks leads by fit.",
   tiers       |-> <<[tier |-> "80-100", label |-> "Hot", action |-> "Call now"],
                     [tier |-> "0-79", action |-> "Nurture"]>>]

ChurnModel ==
  [name        |-> "Churn Propensity",
   description |-> "Predicts cancellation.",
   scale       |-> "0-1",
   tiers       |-> <<[tier |-> "High", action |-> "Win back"]>>]

BrazeTool ==
  [name         |-> "Braze",
   description  |-> "Engagement platform",
   capabilities |-> <<"Campaigns", "Canvas">>,
   channels     |-> <<"Push", "Email">>,
   integrations |-> <<"Segment">>]

\* a Braze entry that lists no channels
BrazeToolPlain == [name |-> "Braze", description |-> "Engagement platform"]

SegmentTool == [name |-> "Segment", description |-> "Customer data platform"]

LookerTool ==
  [name |-> "Looker", description |-> "Dashboards",
   capabilities |-> <<"Reports">>]

Measurement ==
  [description |-> "Unified measurement",
   approaches  |-> <<[name |-> "MTA", purpose |-> "Tactical",
                      description |-> "Credits touchpoints"]>>]

Compliance ==
  [regulations   |-> <<"GDPR", "CPRA">>,
   principle     |-> "Consent first",
   highRiskAreas |-> <<[area |-> "Email",
                        requirements |-> <<"Opt-in", "Unsubscribe">>]>>]

\* a document with every section filled
FullDocument(faqs) ==
  [company          |-> "Mindvalley",
   lastUpdated      |-> "2025-01",
   strategyGoals    |-> [goals |-> <<"Growth">>, objectives |-> <<"Retention">>],
   strategicPillars |-> <<[name |-> "Data", description |-> "One profile",
                           initiatives |-> <<"CDP rollout">>]>>,
   categories       |-> <<[name |-> "Customer Engagement",
                           description |-> "Messaging",
                           tools |-> <<BrazeTool>>],
                          [name |-> "Data",
                           description |-> "Collection",
                           tools |-> <<SegmentTool, LookerTool>>]>>,
   dataStrategy     |-> [predictiveModels |-> <<LeadScoreModel, ChurnModel>>],
   dataFlows        |-> <<[name |-> "Events", source |-> "App",
                           destination |-> "Segment",
                           description |-> "Tracking calls",
                           dataType |-> "Behavioural"]>>,
   measurementFramework |-> Measurement,
   compliance       |-> Compliance,
   faqs             |-> faqs]

\* a document whose optional sections are absent and whose lists are short:
\* no predictive model, no data flow, a Braze entry without channels
SparseDocument(faqs) ==
  [company          |-> "Mindvalley",
   lastUpdated      |-> "2025-01",
   categories       |-> <<[name |-> "Customer Engagement",
                           description |-> "Messaging",
                           tools |-> <<BrazeToolPlain>>]>>,
   dataStrategy     |-> [predictiveModels |-> <<>>],
   dataFlows        |-> <<>>,
   measurementFramework |-> Measurement,
   compliance       |-> Compliance,
   faqs             |-> faqs]

Documents ==
  {FullDocument(f) : f \in FaqLists} \cup {SparseDocument(f) : f \in FaqLists}
    \cup {FullDocument(LongFaqList)}

\* ------------------------------------------------------------------------
\* Questions
\* ------------------------------------------------------------------------

\* the words and phrases questions are made of
Vocabulary ==
  <<"how", "mta", "lead scoring", "churn", "Braze", "channels", "consent",
    "privacy", "data", "flow", "segment">>

RECURSIVE QuestionOf(_)
\* the entries with the given indices, in vocabulary order, one space apart
QuestionOf(S) ==
  IF S = {} THEN ""
  ELSE LET i == CHOOSE k \in S : \A j \in S : k <= j
       IN  IF S = {i} THEN Vocabulary[i]
           ELSE Vocabulary[i] \o " " \o QuestionOf(S \ {i})

\* every question of at most MaxPhrases distinct vocabulary entries; the empty
\* selection is the empty question
Questions ==
  {QuestionOf(S) : S \in {T \in SUBSET (1..Len(Vocabulary)) :
                            Cardinality(T) <= MaxPhrases}}

\* ------------------------------------------------------------------------
\* generateSmartAnswer (src/api/chat.js:108-200)
\* ------------------------------------------------------------------------

\* JavaScript numbers met by the scoring loop, as fractions; 0/0 is NaN
Zero == [num |-> 0, den |-> 1]

Threshold03 == [num |-> 3, den |-> 10]

Threshold05 == [num |-> 5, den |-> 10]

IsNaN(x) == x.den = 0

\* x > y on JavaScript numbers: false as soon as one side is NaN
Greater(x, y) ==
  /\ ~IsNaN(x)
  /\ ~IsNaN(y)
  /\ x.num * y.den > y.num * x.den

\* a filter that also keeps three-letter words
IsSignificant_Short(w) == Len(w) > 2

\* the filter of chat.js:117 and chat.js:209
IsSignificant(w) == Len(w) > 3

\* q.split(/\s+/).filter(w => w.length > 3)
SignificantWords(q) == SelectSeq(SplitWhitespace(q), IsSignificant)

\* matches / words.length for one FAQ
Score(q, faq) ==
  LET faqQ    == ToLowerCase(faq.question)
      words   == SignificantWords(q)
      matches == Len(SelectSeq(words, LAMBDA w : Includes(faqQ, w)))
  IN  [num |-> matches, den |-> Len(words)]

\* a loop test with the floor of the confident match, 0.5, in place of 0.3
ScoreBeats_Half(score, bestScore) ==
  Greater(score, bestScore) /\ Greater(score, [num |-> 5, den |-> 10])

\* a loop test that lets a later FAQ of equal score replace the best one
ScoreBeats_Last(score, bestScore) ==
  /\ ~IsNaN(score)
  /\ score.num * bestScore.den >= bestScore.num * score.den
  /\ Greater(score, [num |-> 3, den |-> 10])

\* the test that makes an FAQ the new best match
ScoreBeats(score, bestScore) ==
  Greater(score, bestScore) /\ Greater(score, Threshold03)

RECURSIVE FaqLoop(_, _, _, _)
\* the for loop over kb.faqs; bestFaq is a position in kb.faqs, 0 for null
FaqLoop(q, faqs, i, best) ==
  IF i > Len(faqs) THEN best
  ELSE LET score == Score(q, faqs[i])
       IN  FaqLoop(q, faqs, i + 1,
                   IF ScoreBeats(score, best.bestScore)
                   THEN [bestFaq |-> i, bestScore |-> score]
                   ELSE best)

\* bestFaq and bestScore when the loop is over
BestMatch(q, kb) == FaqLoop(q, kb.faqs, 1, [bestFaq |-> 0, bestScore |-> Zero])

\* a handler that never takes the confident-match exit of chat.js:127
IsConfident_Never(best) == FALSE

\* bestFaq && bestScore > 0.5
IsConfident(best) == best.bestFaq # 0 /\ Greater(best.bestScore, Threshold05)

\* Array.prototype.find: the position of the first element with P, 0 if none
Find(items, P(_)) ==
  IF \E i \in 1..Len(items) : P(items[i])
  THEN CHOOSE i \in 1..Len(items) :
         P(items[i]) /\ \A j \in 1..(i - 1) : ~P(items[j])
  ELSE 0

\* ${obj.field} in a template literal
Interpolate(obj, field) == IF Has(obj, field) THEN obj[field] ELSE "undefined"

\* a text field that is present and not empty
HasText(obj, field) == Has(obj, field) /\ obj[field] # ""

FaqAnswer(faq) == "**" \o faq.question \o "**\n\n" \o faq.answer

LeadScoringTierLine(t) ==
  Bullet \o " **" \o t.tier \o "**"
    \o (IF HasText(t, "label") THEN " (" \o t.label \o ")" ELSE "")
    \o ": " \o t.action \o "\n"

LeadScoringAnswer(model) ==
  "**" \o model.name \o "**\n\n" \o model.description
    \o "\n\n**Score Tiers:**\n"
    \o ConcatAll(Map(model.tiers, LeadScoringTierLine))
    \o "\nThe score is computed in Segment and synced to Braze for targeting."

ChurnTierLine(t) == Bullet \o " **" \o t.tier \o "**: " \o t.action \o "\n"

ChurnAnswer(model) ==
  "**" \o model.name \o "**\n\n" \o model.description
    \o " (Scale: " \o Interpolate(model, "scale") \o ")\n\n**Tiers:**\n"
    \o ConcatAll(Map(model.tiers, ChurnTierLine))

BulletLine(c) == Bullet \o " " \o c

ChannelsAnswer(braze) ==
  "**Braze Supported Channels:**\n\n"
    \o Join(Map(braze.channels, BulletLine), "\n")
    \o "\n\n**Additional Capabilities:**\n"
    \o Join(Map(Slice0(braze.capabilities, 6), BulletLine), "\n")

ApproachParagraph(a) ==
  "**" \o a.name \o "** - " \o a.purpose \o "\n" \o a.description \o "\n\n"

AttributionAnswer(kb) ==
  LET mf == kb.measurementFramework
  IN  "**" \o mf.description \o "**\n\n"
        \o ConcatAll(Map(mf.approaches, ApproachParagraph))

RiskAreaParagraph(area) ==
  "**" \o area.area \o ":**\n"
    \o Join(Map(area.requirements, BulletLine), "\n") \o "\n\n"

ComplianceAnswer(kb) ==
  LET c == kb.compliance
  IN  "**Compliance & Privacy**\n\nRegulations: "
        \o Join(c.regulations, ", ")
        \o "\n\n_\"" \o c.principle \o "\"_\n\n"
        \o ConcatAll(Map(c.highRiskAreas, RiskAreaParagraph))

DataFlowLine(f) ==
  Bullet \o " **" \o f.name \o "**: " \o f.source \o " " \o Arrow \o " "
    \o f.destination \o "\n  _" \o f.dataType \o "_\n"

DataFlowAnswer(kb) ==
  "**Data Collection & Flows**\n\nUser data is collected via Segment SDK in the web/app.\n\n**Key Data Flows:**\n"
    \o ConcatAll(Map(kb.dataFlows, DataFlowLine))

BrazeMenu ==
  "**I can help with Braze!** Try asking:\n\n"
    \o Bullet \o " \"List all campaigns\" - See your active campaigns\n"
    \o Bullet \o " \"Show Braze campaigns\" - View campaign list\n"
    \o Bullet \o " \"How many campaigns do we have?\" - Get campaign count\n"
    \o Bullet \o " \"What campaigns are running?\" - See active campaigns\n"
    \o Bullet \o " \"What channels does Braze support?\" - Learn about Braze capabilities\n"
    \o Bullet \o " \"How do I send a push notification?\" - Step-by-step guide\n"
    \o Bullet \o " \"What is a Canvas in Braze?\" - Learn about journey orchestration\n\n"
    \o "_Note: Live campaign data requires Braze to be connected in the Admin panel._"

GenericMenu ==
  "I can help you with questions about:\n\n"
    \o Bullet \o " **Tools**: Braze, Segment, Amplitude, AppsFlyer, Mixpanel\n"
    \o Bullet \o " **Data**: Lead scoring, LTV prediction, churn models\n"
    \o Bullet \o " **Campaigns**: How to send push/email/SMS via Braze\n"
    \o Bullet \o " **Attribution**: MTA vs MMM, measurement frameworks\n"
    \o Bullet \o " **Compliance**: GDPR, consent management\n\n"
    \o "Try asking a specific question like \"How does lead scoring work?\" or \"What channels does Braze support?\""

\* the keyword tests of the topic rules, on the lowercased question
AnswerAsksLeadScoring(q) == Includes(q, "lead scor")

AnswerAsksChurn(q) == Includes(q, "churn") \/ Includes(q, "predictive churn")

\* a channels test with a misspelt keyword
AnswerAsksChannels_Typo(q) == Includes(q, "braze") /\ Includes(q, "chanel")

AnswerAsksChannels(q) == Includes(q, "braze") /\ Includes(q, "channel")

AnswerAsksAttribution(q) ==
  Includes(q, "mta") \/ Includes(q, "mmm") \/ Includes(q, "attribution")

AnswerAsksCompliance(q) ==
  Includes(q, "gdpr") \/ Includes(q, "compliance") \/ Includes(q, "privacy")

AnswerAsksDataFlow(q) ==
  Includes(q, "data") /\ (Includes(q, "collect") \/ Includes(q, "flow"))

AnswerAsksBraze(q) ==
  Includes(q, "braze") \/ Includes(q, "campaign") \/ Includes(q, "canvas")

\* kb.dataStrategy.predictiveModels.find(m => m.name.includes(part))
FindModel(kb, part) ==
  Find(kb.dataStrategy.predictiveModels, LAMBDA m : Includes(m.name, part))

\* the Braze tool of the Customer Engagement category: <<c, t>>, the
\* positions of the category and of the tool, <<0, 0>> when undefined
FindBraze(kb) ==
  LET c == Find(kb.categories, LAMBDA cat : cat.name = "Customer Engagement")
  IN  IF c = 0 THEN <<0, 0>>
      ELSE LET t == Find(kb.categories[c].tools, LAMBDA tool : tool.name = "Braze")
           IN  IF t = 0 THEN <<0, 0>> ELSE <<c, t>>

\* braze && braze.channels
BrazeHasChannels(kb) ==
  LET b == FindBraze(kb)
  IN  b[1] # 0 /\ Has(kb.categories[b[1]].tools[b[2]], "channels")

generateSmartAnswer(question, kb) ==
  LET q      == ToLowerCase(question)
      best   == BestMatch(q, kb)
      models == kb.dataStrategy.predictiveModels
      lead   == FindModel(kb, "Lead Score")
      churn  == FindModel(kb, "Churn")
      b      == FindBraze(kb)
  IN  IF IsConfident(best) THEN FaqAnswer(kb.faqs[best.bestFaq])
      ELSE IF AnswerAsksLeadScoring(q) /\ lead # 0
        THEN LeadScoringAnswer(models[lead])
      ELSE IF AnswerAsksChurn(q) /\ churn # 0
        THEN ChurnAnswer(models[churn])
      ELSE IF AnswerAsksChannels(q) /\ BrazeHasChannels(kb)
        THEN ChannelsAnswer(kb.categories[b[1]].tools[b[2]])
      ELSE IF AnswerAsksAttribution(q) THEN AttributionAnswer(kb)
      ELSE IF AnswerAsksCompliance(q) THEN ComplianceAnswer(kb)
      ELSE IF AnswerAsksDataFlow(q) THEN DataFlowAnswer(kb)
      ELSE IF best.bestFaq # 0 THEN FaqAnswer(kb.faqs[best.bestFaq])
      ELSE IF AnswerAsksBraze(q) THEN BrazeMenu
      ELSE GenericMenu

\* ------------------------------------------------------------------------
\* buildContext (src/api/chat.js:281-382): the whole document as text
\* ------------------------------------------------------------------------

PillarLines(pillar) ==
  "- " \o pillar.name \o ": " \o pillar.description \o "\n"
    \o "  Initiatives: " \o Join(pillar.initiatives, "; ") \o "\n"

FullToolLines(tool) ==
  "- " \o tool.name \o ": " \o tool.description \o "\n"
    \o (IF Has(tool, "capabilities")
        THEN "  Capabilities: " \o Join(tool.capabilities, ", ") \o "\n" ELSE "")
    \o (IF Has(tool, "channels")
        THEN "  Channels: " \o Join(tool.channels, ", ") \o "\n" ELSE "")
    \o (IF Has(tool, "integrations")
        THEN "  Integrations: " \o Join(tool.integrations, ", ") \o "\n" ELSE "")

FullCategoryLines(cat) ==
  "\n" \o cat.name \o ": " \o cat.description \o "\n"
    \o ConcatAll(Map(cat.tools, FullToolLines))

FullTierLine(tier) ==
  "  " \o tier.tier
    \o (IF HasText(tier, "label") THEN " [" \o tier.label \o "]" ELSE "")
    \o ": " \o tier.action \o "\n"

FullModelLines(model) ==
  "- " \o model.name \o ": " \o model.description
    \o (IF HasText(model, "scale") THEN " (Scale: " \o model.scale \o ")" ELSE "")
    \o "\n"
    \o (IF Has(model, "tiers") THEN ConcatAll(Map(model.tiers, FullTierLine))
        ELSE "")

FullFlowLines(flow) ==
  "- " \o flow.name \o ": " \o flow.source \o " -> " \o flow.destination \o "\n"
    \o "  " \o flow.description \o "\n"
    \o "  Data Type: " \o flow.dataType \o "\n"

FullApproachLine(a) ==
  "- " \o a.name \o " (" \o a.purpose \o "): " \o a.description \o "\n"

FullAreaLine(area) ==
  "- " \o area.area \o ": " \o Join(area.requirements, "; ") \o "\n"

FullFaqLines(faq) == "Q: " \o faq.question \o "\n" \o "A: " \o faq.answer \o "\n\n"

buildContext(kb) ==
  "Company: " \o Interpolate(kb, "company") \o "\n"
    \o "Last Updated: " \o Interpolate(kb, "lastUpdated") \o "\n\n"
    \o (IF Has(kb, "strategyGoals")
        THEN "Strategy Goals: " \o Join(kb.strategyGoals.goals, ", ") \o "\n"
               \o "Objectives: " \o Join(kb.strategyGoals.objectives, ", ") \o "\n\n"
        ELSE "")
    \o (IF Has(kb, "strategicPillars")
        THEN "Strategic Pillars:\n"
               \o ConcatAll(Map(kb.strategicPillars, PillarLines)) \o "\n"
        ELSE "")
    \o (IF Has(kb, "categories")
        THEN "Tools and Categories:\n"
               \o ConcatAll(Map(kb.categories, FullCategoryLines)) \o "\n"
        ELSE "")
    \o (IF Has(kb, "dataStrategy") /\ Has(kb.dataStrategy, "predictiveModels")
        THEN "Predictive Models:\n"
               \o ConcatAll(Map(kb.dataStrategy.predictiveModels, FullModelLines))
               \o "\n"
        ELSE "")
    \o (IF Has(kb, "dataFlows")
        THEN "Data Flows:\n" \o ConcatAll(Map(kb.dataFlows, FullFlowLines)) \o "\n"
        ELSE "")
    \o (IF Has(kb, "measurementFramework")
        THEN "Measurement Framework: " \o kb.measurementFramework.description \o "\n"
               \o ConcatAll(Map(kb.measurementFramework.approaches, FullApproachLine))
               \o "\n"
        ELSE "")
    \o (IF Has(kb, "compliance")
        THEN "Compliance Regulations: " \o Join(kb.compliance.regulations, ", ") \o "\n"
               \o "Principle: " \o kb.compliance.principle \o "\n"
               \o ConcatAll(Map(kb.compliance.highRiskAreas, FullAreaLine)) \o "\n"
        ELSE "")
    \o (IF Has(kb, "faqs")
        THEN "Frequently Asked Questions:\n" \o ConcatAll(Map(kb.faqs, FullFaqLines))
        ELSE "")

\* ------------------------------------------------------------------------
\* buildFocusedContext (src/api/chat.js:203-279)
\* ------------------------------------------------------------------------

\* Array.prototype.some
Some(items, P(_)) == \E i \in 1..Len(items) : P(items[i])

\* the filter of chat.js:208-211
IsRelevantFaq(q, faq) ==
  LET words   == SignificantWords(q)
      inQuery == ToLowerCase(faq.question)
      inReply == ToLowerCase(faq.answer)
  IN  Some(words, LAMBDA w : Includes(inQuery, w) \/ Includes(inReply, w))

\* kb.faqs.filter(...).slice(0, 3)
RelevantFaqs(q, kb) ==
  Slice0(SelectSeq(kb.faqs, LAMBDA faq : IsRelevantFaq(q, faq)), 3)

FocusedFaqLines(faq) == "Q: " \o faq.question \o "\nA: " \o faq.answer \o "\n\n"

FaqSection(q, kb) ==
  LET relevantFaqs == RelevantFaqs(q, kb)
  IN  IF Len(relevantFaqs) > 0
      THEN "Relevant FAQs:\n" \o ConcatAll(Map(relevantFaqs, FocusedFaqLines))
      ELSE ""

ContextAsksPredictive(q) ==
  \/ Includes(q, "lead") \/ Includes(q, "score") \/ Includes(q, "churn")
  \/ Includes(q, "ltv") \/ Includes(q, "predictive")

FocusedTierLine(t) ==
  "  - " \o t.tier
    \o (IF HasText(t, "label") THEN " [" \o t.label \o "]" ELSE "")
    \o ": " \o t.action \o "\n"

FocusedModelLines(m) ==
  m.name \o ": " \o m.description
    \o (IF HasText(m, "scale") THEN " (" \o m.scale \o ")" ELSE "")
    \o "\n"
    \o (IF Has(m, "tiers") THEN ConcatAll(Map(m.tiers, FocusedTierLine)) ELSE "")

PredictiveSection(q, kb) ==
  IF ContextAsksPredictive(q)
  THEN "Predictive Models:\n"
         \o ConcatAll(Map(kb.dataStrategy.predictiveModels, FocusedModelLines))
         \o "\n"
  ELSE ""

toolKeywords ==
  <<"braze", "segment", "amplitude", "mixpanel", "appsflyer", "push", "email",
    "sms", "channel">>

ContextAsksTools(q) == Some(toolKeywords, LAMBDA k : Includes(q, k))

\* the test of chat.js:240
ToolIsListed(q, tool) ==
  LET name == ToLowerCase(tool.name)
  IN  Some(toolKeywords, LAMBDA k : Includes(name, k) \/ Includes(q, name))

FocusedToolLines(q, tool) ==
  IF ToolIsListed(q, tool)
  THEN tool.name \o ": " \o tool.description \o "\n"
         \o (IF Has(tool, "capabilities")
             THEN "Capabilities: " \o Join(tool.capabilities, ", ") \o "\n" ELSE "")
         \o (IF Has(tool, "channels")
             THEN "Channels: " \o Join(tool.channels, ", ") \o "\n" ELSE "")
  ELSE ""

ToolsSection(q, kb) ==
  IF ContextAsksTools(q)
  THEN "Tools:\n"
         \o ConcatAll(Map(kb.categories,
              LAMBDA cat : ConcatAll(Map(cat.tools,
                             LAMBDA tool : FocusedToolLines(q, tool)))))
         \o "\n"
  ELSE ""

ContextAsksAttribution(q) ==
  \/ Includes(q, "mta") \/ Includes(q, "mmm") \/ Includes(q, "attribution")
  \/ Includes(q, "measurement")

FocusedApproachLine(a) ==
  a.name \o " (" \o a.purpose \o "): " \o a.description \o "\n"

MeasurementSection(q, kb) ==
  IF ContextAsksAttribution(q)
  THEN "Measurement Framework: " \o kb.measurementFramework.description \o "\n"
         \o ConcatAll(Map(kb.measurementFramework.approaches, FocusedApproachLine))
         \o "\n"
  ELSE ""

ContextAsksCompliance(q) ==
  \/ Includes(q, "gdpr") \/ Includes(q, "compliance") \/ Includes(q, "privacy")
  \/ Includes(q, "consent")

FocusedAreaLine(a) == a.area \o ": " \o Join(a.requirements, "; ") \o "\n"

ComplianceSection(q, kb) ==
  IF ContextAsksCompliance(q)
  THEN "Compliance: Regulations: " \o Join(kb.compliance.regulations, ", ") \o "\n"
         \o "Principle: " \o kb.compliance.principle \o "\n"
         \o ConcatAll(Map(kb.compliance.highRiskAreas, FocusedAreaLine))
         \o "\n"
  ELSE ""

ContextAsksDataFlow(q) ==
  \/ Includes(q, "data") \/ Includes(q, "flow") \/ Includes(q, "collect")
  \/ Includes(q, "segment")

FocusedFlowLine(f) ==
  f.name \o ": " \o f.source \o " -> " \o f.destination
    \o " (" \o f.dataType \o ")\n"

DataFlowSection(q, kb) ==
  IF ContextAsksDataFlow(q)
  THEN "Data Flows:\n" \o ConcatAll(Map(kb.dataFlows, FocusedFlowLine)) \o "\n"
  ELSE ""

\* the local variable context when the last section has been appended
FocusedSections(q, kb) ==
  FaqSection(q, kb) \o PredictiveSection(q, kb) \o ToolsSection(q, kb)
    \o MeasurementSection(q, kb) \o ComplianceSection(q, kb)
    \o DataFlowSection(q, kb)

\* a return without the full-document fallback
OrElse_Bare(context, whole) == context

\* context || buildContext(kb)
OrElse(context, whole) == IF context # "" THEN context ELSE whole

buildFocusedContext(question, kb) ==
  OrElse(FocusedSections(ToLowerCase(question), kb), buildContext(kb))

\* ------------------------------------------------------------------------
\* Requests and replies of the completion service
\* ------------------------------------------------------------------------

\* largest number of vocabulary entries in the question of a request
MaxRequestPhrases == 1

Methods == {"OPTIONS", "GET", "POST"}

RequestQuestions ==
  {QuestionOf(S) : S \in {T \in SUBSET (1..Len(Vocabulary)) :
                            Cardinality(T) <= MaxRequestPhrases}}

\* POST requests: no parsed body, a body without question, a question, or
\* a question sent with a snapshot of campaign records, a field the handlers
\* do not read (chat.js:18)
PostRequests ==
  {[method |-> "POST", hasBody |-> FALSE, body |-> [query |-> ""]],
   [method |-> "POST", hasBody |-> TRUE, body |-> [query |-> "how"]],
   [method |-> "POST", hasBody |-> TRUE,
    body |-> [question |-> "how many campaigns do we have",
              liveData |-> <<[name |-> "Summer Sale", isDraft |-> FALSE,
                              lastEdited |-> "2024-06-01"],
                             [name |-> "Welcome Series", isDraft |-> TRUE,
                              createdAt |-> "2024-05-01"]>>]]}
    \cup {[method |-> "POST", hasBody |-> TRUE, body |-> [question |-> s]] :
            s \in RequestQuestions}

\* requests of the other methods carry no body
OtherRequests ==
  {[method |-> m, hasBody |-> FALSE, body |-> [query |-> ""]] :
     m \in Methods \ {"POST"}}

Requests == PostRequests \cup OtherRequests

\* what the call of the completion service comes back with: the fetch
\* rejects, or resolves to a response with its ok flag and its JSON body
ServiceReplies ==
  {[rejected |-> TRUE, ok |-> FALSE, body |-> [none |-> ""]],
   [rejected |-> FALSE, ok |-> FALSE,
    body |-> [error |-> [message |-> "Rate limit reached"]]],
   [rejected |-> FALSE, ok |-> TRUE,
    body |-> [choices |-> <<[message |-> [content |-> "Use a Canvas."]]>>]],
   [rejected |-> FALSE, ok |-> TRUE,
    body |-> [choices |-> <<[message |-> [content |-> ""]]>>]],
   [rejected |-> FALSE, ok |-> TRUE, body |-> [choices |-> <<>>]],
   [rejected |-> FALSE, ok |-> TRUE, body |-> [id |-> "cmpl-1"]]}

NoReply == [rejected |-> FALSE, ok |-> FALSE, body |-> [pending |-> ""]]

NoDocument == [loaded |-> FALSE]

\* data.choices[0]?.message?.content, "" standing for undefined as well
ReplyContent(reply) ==
  LET choices == reply.body.choices
  IN  IF Len(choices) = 0 THEN ""
      ELSE IF ~Has(choices[1], "message") THEN ""
      ELSE IF ~Has(choices[1].message, "content") THEN ""
      ELSE choices[1].message.content

\* the try block of the handler ends in its catch clause: the fetch
\* rejected, the response was not ok, or data.choices is undefined
ReplyThrows(reply) ==
  \/ reply.rejected
  \/ ~reply.ok
  \/ ~Has(reply.body, "choices")

\* the message of the Error the catch clause receives
ErrorMessage(reply) ==
  IF reply.rejected THEN "fetch failed"
  ELSE IF ~reply.ok
    THEN IF Has(reply.body, "error") /\ HasText(reply.body.error, "message")
         THEN reply.body.error.message
         ELSE "OpenAI API error"
  ELSE "Cannot read properties of undefined (reading '0')"

Placeholder == "Sorry, I could not generate a response."

\* content || 'Sorry, I could not generate a response.'
AnswerOfReply(reply) ==
  IF ReplyContent(reply) # "" THEN ReplyContent(reply) ELSE Placeholder

\* !question
QuestionMissing(req) == ~Has(req.body, "question") \/ req.body.question = ""

\* ------------------------------------------------------------------------
\* The knowledge search (src/unnamed/part_001)
\* ------------------------------------------------------------------------

\* searchTerms.some(term => text.toLowerCase().includes(term))
TermIn(text, terms) ==
  LET lowered == ToLowerCase(text)
  IN  Some(terms, LAMBDA term : Includes(lowered, term))

\* list && list.some(item => item.toLowerCase().includes(term)), for some term
TermInList(obj, field, terms) ==
  Has(obj, field) /\ Some(obj[field], LAMBDA item : TermIn(item, terms))

\* faqMatch, part_001:36-39
FaqMatches(faq, terms) == TermIn(faq.question, terms) \/ TermIn(faq.answer, terms)

\* toolMatch, part_001:48-54
ToolMatches(tool, terms) ==
  \/ TermIn(tool.name, terms)
  \/ TermIn(tool.description, terms)
  \/ TermInList(tool, "capabilities", terms)
  \/ TermInList(tool, "integrations", terms)
  \/ TermInList(tool, "channels", terms)

\* list || []
ListOrEmpty(obj, field) == IF Has(obj, field) THEN obj[field] ELSE <<>>

\* the object pushed at part_001:57-67; status, useCase and consolidationPlan
\* are undefined in these documents and leave the JSON
FoundTool(cat, tool) ==
  [category     |-> cat.name,
   tool         |-> tool.name,
   description  |-> tool.description,
   capabilities |-> ListOrEmpty(tool, "capabilities"),
   integrations |-> ListOrEmpty(tool, "integrations"),
   channels     |-> ListOrEmpty(tool, "channels")]

RECURSIVE Flatten(_)
\* the elements of the lists of a list, in order
Flatten(lists) ==
  IF lists = <<>> THEN <<>> ELSE Head(lists) \o Flatten(Tail(lists))

\* results.tools after the loops of part_001:46-70
FoundTools(kb, terms) ==
  Flatten(Map(kb.categories,
              LAMBDA cat : Map(SelectSeq(cat.tools,
                                         LAMBDA tool : ToolMatches(tool, terms)),
                               LAMBDA tool : FoundTool(cat, tool))))

\* flowMatch, part_001:74-80
FlowMatches(flow, terms) ==
  \/ TermIn(flow.name, terms)
  \/ TermIn(flow.description, terms)
  \/ TermIn(flow.source, terms)
  \/ TermIn(flow.destination, terms)
  \/ TermIn(flow.dataType, terms)

\* modelMatch, part_001:88-95
ModelMatches(model, terms) ==
  \/ TermIn(model.name, terms)
  \/ TermIn(model.description, terms)
  \/ /\ Has(model, "tiers")
     /\ Some(model.tiers,
             LAMBDA t : \/ TermIn(t.action, terms)
                        \/ Has(t, "label") /\ TermIn(t.label, terms))

\* pillarMatch, part_001:103-107
PillarMatches(pillar, terms) ==
  \/ TermIn(pillar.name, terms)
  \/ TermIn(pillar.description, terms)
  \/ Some(pillar.initiatives, LAMBDA init : TermIn(init, terms))

complianceTerms ==
  <<"gdpr", "compliance", "consent", "privacy", "cpra", "pdpa", "regulation">>

measurementTerms ==
  <<"mta", "mmm", "attribution", "measurement", "incrementality", "experiment">>

\* searchTerms.some(term => list.includes(term))
AnyTermOf(terms, list) ==
  Some(terms, LAMBDA term : Some(list, LAMBDA entry : entry = term))

\* the results object of part_001:25-123; measurementFramework is set only
\* when a measurement term was searched
SearchResults(kb, terms) ==
  LET base ==
        [tools            |-> FoundTools(kb, terms),
         faqs             |-> SelectSeq(kb.faqs,
                                LAMBDA faq : FaqMatches(faq, terms)),
         dataFlows        |-> SelectSeq(kb.dataFlows,
                                LAMBDA flow : FlowMatches(flow, terms)),
         predictiveModels |-> SelectSeq(kb.dataStrategy.predictiveModels,
                                LAMBDA model : ModelMatches(model, terms)),
         strategicPillars |-> SelectSeq(kb.strategicPillars,
                                LAMBDA pillar : PillarMatches(pillar, terms)),
         compliance       |-> IF AnyTermOf(terms, complianceTerms)
                                THEN <<kb.compliance>> ELSE <<>>]
  IN  IF AnyTermOf(terms, measurementTerms)
        THEN base @@ [f \in {"measurementFramework"} |-> kb.measurementFramework]
        ELSE base

\* totalResults, part_001:125-132
TotalResults(results) ==
  Len(results.tools) + Len(results.faqs) + Len(results.dataFlows)
    + Len(results.predictiveModels) + Len(results.strategicPillars)
    + Len(results.compliance)
    + (IF Has(results, "measurementFramework") THEN 1 ELSE 0)

\* the response of the search for a non-empty query, part_001:17-147: a
\* document without strategicPillars makes the loop of line 102 throw
SearchResponse(query, kb) ==
  IF ~Has(kb, "strategicPillars")
    THEN [status |-> 500,
          body   |-> [success |-> FALSE, error |-> "Search failed"]]
    ELSE LET results == SearchResults(kb, SplitWhitespace(ToLowerCase(query)))
         IN  [status |-> 200,
              body   |-> [success      |-> TRUE,
                          query        |-> query,
                          company      |-> kb.company,
                          results      |-> results,
                          totalResults |-> TotalResults(results)]]

\* ------------------------------------------------------------------------
\* The handlers
\* ------------------------------------------------------------------------

VARIABLES
  openaiKey,       \* process.env.OPENAI_API_KEY is set
  kbFile,          \* data/knowledge-base.json: readable flag and content
  endpoint,        \* the handler serving the request
  req,             \* the request
  pc,              \* "idle", "awaiting" (the fetch is pending), "done", "crashed"
  knowledgeBase,   \* the handler's parsed document, NoDocument before the load
  context,         \* the context sent to the completion service, "" if none
  completionCalls, \* calls of the completion service issued
  reply,           \* the reply of the completion service, NoReply if none
  responses,       \* the responses sent, in order
  question,        \* answer engine alone: the question argument
  document,        \* answer engine alone: the kb argument
  phase,           \* answer engine alone: "asked", then "answered",
                   \* "assembled" or "searched"
  match,           \* bestFaq and bestScore of the last generateSmartAnswer call
  answer,          \* the value generateSmartAnswer returned
  assembled,       \* the value buildFocusedContext returned
  found,           \* the response of the knowledge search
  airtableReq,     \* Airtable connection test: the request being handled
  airtablePc,      \* its position: "idle", "awaiting", "done", "crashed"
  airtableCalls,   \* the calls of api.airtable.com it issued
  airtableReply,   \* what the call came back with, NoResponse if nothing
  airtableResponses, \* the responses it sent, in order
  airtableFetched, \* Airtable data fetch: what each of its calls asked for
  tablesResponse   \* Airtable data fetch: the reply to the call for the
                   \* table list, NoResponse if none

handlerVars ==
  <<openaiKey, kbFile, endpoint, req, pc, knowledgeBase, context,
    completionCalls, reply, responses>>

engineVars == <<question, document, phase, match, answer, assembled, found>>

airtableVars ==
  <<airtableReq, airtablePc, airtableCalls, airtableReply, airtableResponses,
    airtableFetched, tablesResponse>>

vars == <<handlerVars, engineVars, airtableVars>>

NoMatch == [bestFaq |-> 0, bestScore |-> Zero]

NoResponse == [status |-> 0]

NoRequest == [method |-> "none", hasBody |-> FALSE, body |-> [query |-> ""]]

\* the answer engine is not run on its own
EngineOff ==
  /\ question = ""
  /\ document = NoDocument
  /\ phase = "off"
  /\ match = NoMatch
  /\ answer = ""
  /\ assembled = ""
  /\ found = NoResponse

\* the Airtable connection test is not run
AirtableOff ==
  /\ airtableReq = NoRequest
  /\ airtablePc = "off"
  /\ airtableCalls = 0
  /\ airtableReply = NoResponse
  /\ airtableResponses = <<>>
  /\ airtableFetched = <<>>
  /\ tablesResponse = NoResponse

\* a deployment before its first request: the environment and the file
Init ==
  /\ openaiKey \in BOOLEAN
  /\ kbFile \in {[readable |-> TRUE, content |-> d] : d \in Documents}
                  \cup {[readable |-> FALSE, content |-> NoDocument]}
  /\ endpoint = "none"
  /\ req = NoRequest
  /\ pc = "idle"
  /\ knowledgeBase = NoDocument
  /\ context = ""
  /\ completionCalls = 0
  /\ reply = NoReply
  /\ responses = <<>>
  /\ EngineOff
  /\ AirtableOff

\* a read that turns an unreadable file into an empty document
ReadKnowledgeBase_Empty(file) ==
  [ok    |-> TRUE,
   value |-> IF file.readable THEN file.content ELSE SparseDocument(<<>>)]

\* JSON.parse(fs.readFileSync(kbPath, 'utf8')): the document, or a throw
ReadKnowledgeBase(file) == [ok |-> file.readable, value |-> file.content]

\* res.status(code).json(body), or .end() with an empty body
Respond(code, body) ==
  /\ responses' = Append(responses, [status |-> code, body |-> body])
  /\ pc' = "done"

FallbackBody(text, kb) ==
  [success |-> TRUE, answer |-> generateSmartAnswer(text, kb),
   model |-> "fallback"]

\* src/api/chat.js:5-80, up to the await of the fetch
ChatRequest(r) ==
  /\ pc = "idle"
  /\ endpoint' = "chat"
  /\ req' = r
  /\ UNCHANGED <<openaiKey, kbFile, reply>>
  /\ UNCHANGED <<engineVars, airtableVars>>
  /\ IF r.method = "OPTIONS"
       THEN /\ Respond(200, [ended |-> TRUE])
            /\ UNCHANGED <<knowledgeBase, context, completionCalls>>
     ELSE IF r.method # "POST"
       THEN /\ Respond(405, [error |-> "Method not allowed"])
            /\ UNCHANGED <<knowledgeBase, context, completionCalls>>
     ELSE IF ~r.hasBody
       THEN \* destructuring req.body throws outside any try block
            /\ pc' = "crashed"
            /\ UNCHANGED <<knowledgeBase, context, completionCalls, responses>>
     ELSE IF QuestionMissing(r)
       THEN /\ Respond(400, [error |-> "Question is required"])
            /\ UNCHANGED <<knowledgeBase, context, completionCalls>>
     ELSE IF ~ReadKnowledgeBase(kbFile).ok
       THEN /\ Respond(500, [error |-> "Failed to load knowledge base"])
            /\ UNCHANGED <<knowledgeBase, context, completionCalls>>
     ELSE IF ~openaiKey
       THEN /\ knowledgeBase' = ReadKnowledgeBase(kbFile).value
            /\ Respond(200, FallbackBody(r.body.question,
                                         ReadKnowledgeBase(kbFile).value))
            /\ UNCHANGED <<context, completionCalls>>
     ELSE /\ knowledgeBase' = ReadKnowledgeBase(kbFile).value
          /\ context' = buildFocusedContext(r.body.question,
                                            ReadKnowledgeBase(kbFile).value)
          /\ completionCalls' = completionCalls + 1
          /\ pc' = "awaiting"
          /\ UNCHANGED responses

\* src/api/chat.js:80-104, from the fetch's outcome to the response
ChatCompletionReply(rep) ==
  /\ pc = "awaiting"
  /\ endpoint = "chat"
  /\ reply' = rep
  /\ IF ReplyThrows(rep)
       THEN Respond(200, FallbackBody(req.body.question, knowledgeBase))
       ELSE Respond(200, [success |-> TRUE, answer |-> AnswerOfReply(rep),
                          model |-> "gpt-4o-mini"])
  /\ UNCHANGED <<openaiKey, kbFile, endpoint, req, knowledgeBase, context,
                 completionCalls>>
  /\ UNCHANGED <<engineVars, airtableVars>>

\* src/api/admin-auth.js:35-96, the earlier chat handler up to its fetch
LegacyChatRequest(r) ==
  /\ pc = "idle"
  /\ endpoint' = "legacyChat"
  /\ req' = r
  /\ UNCHANGED <<openaiKey, kbFile, reply>>
  /\ UNCHANGED <<engineVars, airtableVars>>
  /\ IF r.method = "OPTIONS"
       THEN /\ Respond(200, [ended |-> TRUE])
            /\ UNCHANGED <<knowledgeBase, context, completionCalls>>
     ELSE IF r.method # "POST"
       THEN /\ Respond(405, [error |-> "Method not allowed"])
            /\ UNCHANGED <<knowledgeBase, context, completionCalls>>
     ELSE IF ~r.hasBody
       THEN /\ pc' = "crashed"
            /\ UNCHANGED <<knowledgeBase, context, completionCalls, responses>>
     ELSE IF QuestionMissing(r)
       THEN /\ Respond(400, [error |-> "Question is required"])
            /\ UNCHANGED <<knowledgeBase, context, completionCalls>>
     ELSE IF ~openaiKey
       THEN /\ Respond(500, [error |-> "OpenAI API key not configured"])
            /\ UNCHANGED <<knowledgeBase, context, completionCalls>>
     ELSE IF ~ReadKnowledgeBase(kbFile).ok
       THEN /\ Respond(500, [success |-> FALSE,
                             error |-> "ENOENT: no such file or directory"])
            /\ UNCHANGED <<knowledgeBase, context, completionCalls>>
     ELSE /\ knowledgeBase' = ReadKnowledgeBase(kbFile).value
          /\ context' = buildContext(ReadKnowledgeBase(kbFile).value)
          /\ completionCalls' = completionCalls + 1
          /\ pc' = "awaiting"
          /\ UNCHANGED responses

\* src/api/admin-auth.js:96-118
LegacyCompletionReply(rep) ==
  /\ pc = "awaiting"
  /\ endpoint = "legacyChat"
  /\ reply' = rep
  /\ IF ReplyThrows(rep)
       THEN Respond(500, [success |-> FALSE, error |-> ErrorMessage(rep)])
       ELSE Respond(200, [success |-> TRUE, answer |-> AnswerOfReply(rep),
                          model |-> "gpt-4o-mini"])
  /\ UNCHANGED <<openaiKey, kbFile, endpoint, req, knowledgeBase, context,
                 completionCalls>>
  /\ UNCHANGED <<engineVars, airtableVars>>

Next ==
  \/ \E r \in Requests : ChatRequest(r)
  \/ \E rep \in ServiceReplies : ChatCompletionReply(rep)
  \/ \E r \in Requests : LegacyChatRequest(r)
  \/ \E rep \in ServiceReplies : LegacyCompletionReply(rep)

Spec == Init /\ [][Next]_vars

\* ------------------------------------------------------------------------
\* The answer engine on its own: generateSmartAnswer and buildFocusedContext
\* applied to every question and document of the bounds
\* ------------------------------------------------------------------------

\* the handler passes on non-empty questions only (chat.js:20)
EngineQuestions == Questions \ {""}

HandlerOff ==
  /\ openaiKey = FALSE
  /\ kbFile = [readable |-> FALSE, content |-> NoDocument]
  /\ endpoint = "none"
  /\ req = NoRequest
  /\ pc = "off"
  /\ knowledgeBase = NoDocument
  /\ context = ""
  /\ completionCalls = 0
  /\ reply = NoReply
  /\ responses = <<>>

EngineInit ==
  /\ question \in EngineQuestions
  /\ document \in Documents
  /\ phase = "asked"
  /\ match = NoMatch
  /\ answer = ""
  /\ assembled = ""
  /\ found = NoResponse
  /\ HandlerOff
  /\ AirtableOff

\* a rendering whose scoring loop takes the FAQs off the list with shift()
RenderAnswer_Shifting ==
  /\ phase = "asked"
  /\ match' = BestMatch(ToLowerCase(question), document)
  /\ answer' = generateSmartAnswer(question, document)
  /\ phase' = "answered"
  /\ document' = [document EXCEPT !.faqs = <<>>]
  /\ UNCHANGED <<question, assembled, found>>
  /\ UNCHANGED <<handlerVars, airtableVars>>

\* a call generateSmartAnswer(question, document), chat.js:37 and chat.js:98
RenderAnswer ==
  /\ phase = "asked"
  /\ match' = BestMatch(ToLowerCase(question), document)
  /\ answer' = generateSmartAnswer(question, document)
  /\ phase' = "answered"
  /\ UNCHANGED <<question, document, assembled, found>>
  /\ UNCHANGED <<handlerVars, airtableVars>>

\* a call buildFocusedContext(question, document), chat.js:47
AssembleContext ==
  /\ phase = "asked"
  /\ assembled' = buildFocusedContext(question, document)
  /\ phase' = "assembled"
  /\ UNCHANGED <<question, document, match, answer, found>>
  /\ UNCHANGED <<handlerVars, airtableVars>>

\* a knowledge search for the question over the document, part_001:24-140
SearchKnowledge ==
  /\ phase = "asked"
  /\ found' = SearchResponse(question, document)
  /\ phase' = "searched"
  /\ UNCHANGED <<question, document, match, answer, assembled>>
  /\ UNCHANGED <<handlerVars, airtableVars>>

EngineNext == RenderAnswer \/ AssembleContext \/ SearchKnowledge

SpecEngine == EngineInit /\ [][EngineNext]_vars

\* ------------------------------------------------------------------------
\* The Airtable connection test (src/api/airtable-config.js)
\* ------------------------------------------------------------------------

\* requests of the connection test: the other methods, a POST without a
\* parsed body, and bodies with and without apiKey, baseId and tableName
AirtableRequests ==
  OtherRequests
    \cup {[method |-> "POST", hasBody |-> FALSE, body |-> [query |-> ""]]}
    \cup {[method |-> "POST", hasBody |-> TRUE, body |-> b] :
            b \in {[apiKey |-> "patKey1", baseId |-> "appA1b2C3d4"],
                   [apiKey |-> "patKey1", baseId |-> "appA1b2C3d4",
                    tableName |-> "Leads"],
                   [apiKey |-> "patKey1", baseId |-> "app1"],
                   [apiKey |-> "", baseId |-> "appA1b2C3d4"],
                   [apiKey |-> "patKey1"],
                   [baseId |-> "appA1b2C3d4", tableName |-> "Leads"]}}

\* the error objects of an Airtable reply: its type with its message, each
\* type also with the messages of the others, and one without a message
AirtableErrors ==
  {[type |-> t, message |-> m] :
     t \in {"TABLE_NOT_FOUND", "AUTHENTICATION_REQUIRED", "NOT_FOUND",
            "INVALID_PERMISSIONS_OR_MODEL_NOT_FOUND", "INVALID_REQUEST_UNKNOWN"},
     m \in {"Could not find table __connection_test__ in application appA1b2C3d4",
            "Authentication required",
            "Could not find what you are looking for",
            "Invalid permissions, or the requested model was not found.",
            "You do not have permission to read this base",
            "Invalid request: parameter validation failed."}}
    \cup {[type |-> "NOT_FOUND"], [message |-> "Permission missing"]}

\* what the fetch comes back with: it rejects, or resolves to a response with
\* a status and a JSON body of records or of an error
AirtableReplies ==
  {[rejected |-> TRUE, status |-> 0, body |-> [none |-> ""]],
   [rejected |-> FALSE, status |-> 200, body |-> [records |-> <<"rec1">>]],
   [rejected |-> FALSE, status |-> 200, body |-> [offset |-> ""]]}
    \cup {[rejected |-> FALSE, status |-> code, body |-> [error |-> e]] :
            code \in {401, 403, 404, 422}, e \in AirtableErrors}

\* JSON.stringify of an error object that has no message
StringifyError(err) ==
  IF Has(err, "type") THEN "{\"type\":\"" \o err.type \o "\"}" ELSE "{}"

\* the response to the reply of the fetch of a named table,
\* airtable-config.js:37-61
TableTest(r, rep) ==
  LET tableName == r.body.tableName
      errMsg == IF ~Has(rep.body, "error")
                  THEN "{}"
                ELSE IF Has(rep.body.error, "message")
                  THEN rep.body.error.message
                  ELSE "{\"error\":" \o StringifyError(rep.body.error) \o "}"
  IN  IF rep.status \in 200..299
        THEN [status |-> 200,
              body   |-> [success     |-> TRUE,
                          message     |-> "Connection successful",
                          tableName   |-> tableName,
                          recordCount |-> IF Has(rep.body, "records")
                                            THEN Len(rep.body.records) ELSE 0,
                          note        |-> "Successfully connected to table"]]
      ELSE IF rep.status = 401
        THEN [status |-> 401,
              body   |-> [success |-> FALSE, error |-> "Invalid API key"]]
      ELSE IF rep.status = 404 \/ Includes(errMsg, "Could not find table")
        THEN [status |-> 404,
              body   |-> [success |-> FALSE,
                          error   |-> "Table \"" \o tableName
                                        \o "\" not found in this base"]]
      ELSE IF rep.status = 403
        THEN [status |-> 403,
              body   |-> [success |-> FALSE,
                          error   |-> "Permission denied - token lacks access to this base"]]
        ELSE [status |-> 400, body |-> [success |-> FALSE, error |-> errMsg]]

\* the response to the reply of the fetch of __connection_test__,
\* airtable-config.js:76-128
ConnectionTest(r, rep) ==
  IF ~Has(rep.body, "error")
    THEN [status |-> 200,
          body   |-> [success |-> TRUE, message |-> "Connection successful"]]
  ELSE
    LET err       == rep.body.error
        errorType == IF Has(err, "type") THEN err.type ELSE ""
        errorMsg  == IF Has(err, "message") THEN err.message
                     ELSE StringifyError(err)
    IN  IF \/ errorType = "TABLE_NOT_FOUND"
           \/ Includes(errorMsg, "Could not find table")
          THEN [status |-> 200,
                body   |-> [success |-> TRUE,
                            message |-> "Connection successful",
                            note    |-> "Base and API key verified. Enter a table name to test full access."]]
        ELSE IF \/ errorType = "AUTHENTICATION_REQUIRED"
                \/ rep.status = 401
                \/ Includes(errorMsg, "authentication")
                \/ Includes(errorMsg, "Invalid")
          THEN [status |-> 401,
                body   |-> [success |-> FALSE,
                            error   |-> "Invalid API key - check your Personal Access Token"]]
        ELSE IF \/ errorType = "NOT_FOUND"
                \/ rep.status = 404
                \/ Includes(errorMsg, "Could not find")
          THEN [status |-> 404,
                body   |-> [success |-> FALSE,
                            error   |-> "Base not found - check your Base ID (starts with \"app\")"]]
        ELSE IF \/ errorType = "INVALID_PERMISSIONS_OR_MODEL_NOT_FOUND"
                \/ Includes(errorMsg, "permission")
                \/ Includes(errorMsg, "Permission")
          THEN [status |-> 403,
                body   |-> [success |-> FALSE,
                            error   |-> "Permission denied. Airtable says: \""
                                          \o errorMsg \o "\". Base ID: "
                                          \o Slice0(r.body.baseId, 6) \o "..."]]
          ELSE [status |-> 400,
                body   |-> [success |-> FALSE,
                            error   |-> "Airtable error: " \o errorMsg,
                            debug   |-> [type |-> errorType,
                                         status |-> rep.status]]]

\* the connection test before its first request
AirtableInit ==
  /\ airtableReq = NoRequest
  /\ airtablePc = "idle"
  /\ airtableCalls = 0
  /\ airtableReply = NoResponse
  /\ airtableResponses = <<>>
  /\ airtableFetched = <<>>
  /\ tablesResponse = NoResponse
  /\ HandlerOff
  /\ EngineOff

\* airtable-config.js:2-74, up to the await of the fetch; the destructuring
\* of line 15 throws outside the try when the body was not parsed
AirtableConfigRequest(r) ==
  /\ airtablePc = "idle"
  /\ airtableReq' = r
  /\ UNCHANGED <<airtableReply, airtableFetched, tablesResponse>>
  /\ UNCHANGED <<handlerVars, engineVars>>
  /\ IF r.method = "OPTIONS"
       THEN /\ airtableResponses' =
                 Append(airtableResponses, [status |-> 200, body |-> [ended |-> TRUE]])
            /\ airtablePc' = "done"
            /\ UNCHANGED airtableCalls
     ELSE IF r.method # "POST"
       THEN /\ airtableResponses' =
                 Append(airtableResponses,
                        [status |-> 405, body |-> [error |-> "Method not allowed"]])
            /\ airtablePc' = "done"
            /\ UNCHANGED airtableCalls
     ELSE IF ~r.hasBody
       THEN /\ airtablePc' = "crashed"
            /\ UNCHANGED <<airtableResponses, airtableCalls>>
     ELSE IF \/ ~Has(r.body, "apiKey") \/ r.body.apiKey = ""
             \/ ~Has(r.body, "baseId") \/ r.body.baseId = ""
       THEN /\ airtableResponses' =
                 Append(airtableResponses,
                        [status |-> 400,
                         body   |-> [success |-> FALSE,
                                     error   |-> "API Key and Base ID are required"]])
            /\ airtablePc' = "done"
            /\ UNCHANGED airtableCalls
       ELSE /\ airtableCalls' = airtableCalls + 1
            /\ airtablePc' = "awaiting"
            /\ UNCHANGED airtableResponses

\* airtable-config.js:37-136, from the await of the fetch on: a rejected
\* fetch is caught at line 130
AirtableConfigReply(rep) ==
  /\ airtablePc = "awaiting"
  /\ airtableReply' = rep
  /\ airtablePc' = "done"
  /\ airtableResponses' =
       Append(airtableResponses,
              IF rep.rejected
                THEN [status |-> 500,
                      body   |-> [success |-> FALSE, error |-> "fetch failed"]]
              ELSE IF Has(airtableReq.body, "tableName")
                      /\ airtableReq.body.tableName # ""
                THEN TableTest(airtableReq, rep)
                ELSE ConnectionTest(airtableReq, rep))
  /\ UNCHANGED <<airtableReq, airtableCalls, airtableFetched, tablesResponse>>
  /\ UNCHANGED <<handlerVars, engineVars>>

AirtableNext ==
  \/ \E r \in AirtableRequests : AirtableConfigRequest(r)
  \/ \E rep \in AirtableReplies : AirtableConfigReply(rep)

SpecAirtable == AirtableInit /\ [][AirtableNext]_vars

\* ------------------------------------------------------------------------
\* The Airtable data fetch (src/api/airtable-data.js)
\* ------------------------------------------------------------------------

RECURSIVE StripSpecial(_)
\* name.replace(/[^\w\s]/g, ''): letters, digits, the underscore and white
\* space stay.  The emojis the replace of line 27 removes are outside ASCII;
\* the names of the model carry other special characters in their place.
StripSpecial(name) ==
  IF name = "" THEN ""
  ELSE LET c == CharAt(name, 1)
           kept == \/ IsSpace(c)
                   \/ \E i \in 1..Len(UpperCase) :
                        c = CharAt(UpperCase, i) \/ c = CharAt(LowerCase, i)
                   \/ \E i \in 1..11 : c = CharAt("0123456789_", i)
       IN  (IF kept THEN c ELSE "") \o StripSpecial(SubSeq(name, 2, Len(name)))

\* airtable-data.js:25-32: runs of white space become one space, the ends
\* are trimmed, the letters are lowered
normalizeTableName(name) ==
  ToLowerCase(Join(SelectSeq(SplitWhitespace(StripSpecial(name)),
                             LAMBDA piece : piece # ""), " "))

\* a pass of the loop that does not leave it at an exact match
MatchStep_NoBreak(best, name, normalizedSearch) ==
  LET normalizedTableName == normalizeTableName(name)
      shorter == IF Len(normalizedSearch) < Len(normalizedTableName)
                   THEN Len(normalizedSearch) ELSE Len(normalizedTableName)
      longer  == IF Len(normalizedSearch) < Len(normalizedTableName)
                   THEN Len(normalizedTableName) ELSE Len(normalizedSearch)
      score   == [num |-> shorter, den |-> longer]
      contained ==
        IF /\ \/ Includes(normalizedTableName, normalizedSearch)
              \/ Includes(normalizedSearch, normalizedTableName)
           /\ Greater(score, best.bestScore)
          THEN [bestMatch |-> name, bestScore |-> score, found |-> FALSE]
          ELSE best
      searchWords == SelectSeq(SplitWhitespace(normalizedSearch),
                               LAMBDA w : Len(w) > 2)
      tableWords  == SelectSeq(SplitWhitespace(normalizedTableName),
                               LAMBDA w : Len(w) > 2)
      matchingWords ==
        SelectSeq(searchWords,
                  LAMBDA w : Some(tableWords,
                                  LAMBDA tw : Includes(tw, w) \/ Includes(w, tw)))
      wordScore == [num |-> Len(matchingWords),
                    den |-> IF Len(searchWords) > 1 THEN Len(searchWords) ELSE 1]
  IN  IF normalizedTableName = normalizedSearch
        THEN [bestMatch |-> name, bestScore |-> best.bestScore, found |-> FALSE]
      ELSE IF Len(matchingWords) > 0 /\ Greater(wordScore, contained.bestScore)
        THEN [bestMatch |-> name, bestScore |-> wordScore, found |-> FALSE]
        ELSE contained

\* one pass of the loop of airtable-data.js:81-110 over the table called
\* name: bestMatch and bestScore after it, and whether the break of line 87
\* was taken
MatchStep(best, name, normalizedSearch) ==
  LET normalizedTableName == normalizeTableName(name)
      shorter == IF Len(normalizedSearch) < Len(normalizedTableName)
                   THEN Len(normalizedSearch) ELSE Len(normalizedTableName)
      longer  == IF Len(normalizedSearch) < Len(normalizedTableName)
                   THEN Len(normalizedTableName) ELSE Len(normalizedSearch)
      score   == [num |-> shorter, den |-> longer]
      contained ==
        IF /\ \/ Includes(normalizedTableName, normalizedSearch)
              \/ Includes(normalizedSearch, normalizedTableName)
           /\ Greater(score, best.bestScore)
          THEN [bestMatch |-> name, bestScore |-> score, found |-> FALSE]
          ELSE best
      searchWords == SelectSeq(SplitWhitespace(normalizedSearch),
                               LAMBDA w : Len(w) > 2)
      tableWords  == SelectSeq(SplitWhitespace(normalizedTableName),
                               LAMBDA w : Len(w) > 2)
      matchingWords ==
        SelectSeq(searchWords,
                  LAMBDA w : Some(tableWords,
                                  LAMBDA tw : Includes(tw, w) \/ Includes(w, tw)))
      wordScore == [num |-> Len(matchingWords),
                    den |-> IF Len(searchWords) > 1 THEN Len(searchWords) ELSE 1]
  IN  IF normalizedTableName = normalizedSearch
        THEN [bestMatch |-> name, bestScore |-> best.bestScore, found |-> TRUE]
      ELSE IF Len(matchingWords) > 0 /\ Greater(wordScore, contained.bestScore)
        THEN [bestMatch |-> name, bestScore |-> wordScore, found |-> FALSE]
        ELSE contained

RECURSIVE MatchFrom(_, _, _, _)
\* bestMatch after the loop of airtable-data.js:78-110 from table i on; the
\* empty name stands for null, both fail the test of line 112
MatchFrom(tables, i, best, normalizedSearch) ==
  IF i > Len(tables) \/ best.found THEN best.bestMatch
  ELSE MatchFrom(tables, i + 1,
                 MatchStep(best, tables[i].name, normalizedSearch),
                 normalizedSearch)

\* requests of the data fetch: the other methods, a POST without a parsed
\* body, and bodies with and without the three required fields
DataRequests ==
  OtherRequests
    \cup {[method |-> "POST", hasBody |-> FALSE, body |-> [query |-> ""]]}
    \cup {[method |-> "POST", hasBody |-> TRUE, body |-> b] :
            b \in {[apiKey |-> "patKey1", baseId |-> "appA1b2C3d4",
                    tableName |-> "leads"],
                   [apiKey |-> "patKey1", baseId |-> "appA1b2C3d4",
                    tableName |-> "Campaign  plans"],
                   [apiKey |-> "patKey1", baseId |-> "appA1b2C3d4"],
                   [apiKey |-> "patKey1", baseId |-> "appA1b2C3d4",
                    tableName |-> ""],
                   [baseId |-> "appA1b2C3d4", tableName |-> "leads"],
                   [apiKey |-> "patKey1", tableName |-> "leads"]}}

\* the table lists of a base: at most MaxTables different tables
TableLists ==
  LET names == {"Leads 2024", "& Leads!", "Lead Scores", "Campaign Plans"}
  IN  {[i \in DOMAIN l |-> [name |-> l[i]]] :
         l \in {f \in UNION {[1..n -> names] : n \in 0..MaxTables} :
                  \A i, j \in DOMAIN f : i # j => f[i] # f[j]}}

\* what a call of api.airtable.com comes back with: the fetch rejects, or
\* resolves to a response with a status and a JSON body of records, of
\* tables, of an error, or of none of them
DataReplies ==
  {[rejected |-> TRUE, status |-> 0, body |-> [none |-> ""]],
   [rejected |-> FALSE, status |-> 200,
    body |-> [records |-> <<[id |-> "rec1", createdTime |-> "2024-06-01",
                             fields |-> [Name |-> "Ada"]]>>]],
   [rejected |-> FALSE, status |-> 200, body |-> [offset |-> ""]],
   [rejected |-> FALSE, status |-> 404,
    body |-> [error |-> [type |-> "TABLE_NOT_FOUND",
                         message |-> "Could not find table leads in application appA1b2C3d4"]]],
   [rejected |-> FALSE, status |-> 422,
    body |-> [error |-> [type |-> "INVALID_REQUEST_UNKNOWN",
                         message |-> "Could not find table"]]],
   [rejected |-> FALSE, status |-> 403,
    body |-> [error |-> [type |-> "INVALID_PERMISSIONS_OR_MODEL_NOT_FOUND",
                         message |-> "Invalid permissions"]]],
   [rejected |-> FALSE, status |-> 404, body |-> [error |-> [type |-> "NOT_FOUND"]]],
   [rejected |-> FALSE, status |-> 500, body |-> [none |-> ""]]}
    \cup {[rejected |-> FALSE, status |-> 200, body |-> [tables |-> l]] :
            l \in TableLists}

\* the response that ends the handler once response and data are final:
\* airtable-data.js:118-131 after a retry, 137-157 otherwise
DataResponse(rep, requested, matched) ==
  LET ok == rep.status \in 200..299
      records ==
        IF Has(rep.body, "records")
          THEN [i \in DOMAIN rep.body.records |->
                  LET record == rep.body.records[i]
                  IN  ("_createdTime" :> record.createdTime)
                        @@ record.fields @@ ("id" :> record.id)]
          ELSE <<>>
      err == IF Has(rep.body, "error") THEN rep.body.error ELSE [none |-> ""]
      fetched == [success |-> TRUE, records |-> records, count |-> Len(records)]
  IN  IF ok /\ matched # ""
        THEN [status |-> 200,
              body   |-> fetched @@ [tableName |-> matched,
                                     requestedTable |-> requested]]
      ELSE IF ok
        THEN [status |-> 200, body |-> fetched @@ [tableName |-> requested]]
        ELSE [status |-> rep.status,
              body   |-> [success |-> FALSE,
                          error   |-> IF Has(err, "message") /\ err.message # ""
                                        THEN err.message
                                        ELSE "Airtable API error",
                          details |-> err]]

\* the response of the catch clause, airtable-data.js:159-165
DataFailure ==
  [status |-> 500, body |-> [success |-> FALSE, error |-> "fetch failed"]]

\* the data fetch before its first request
DataInit ==
  /\ airtableReq = NoRequest
  /\ airtablePc = "idle"
  /\ airtableCalls = 0
  /\ airtableReply = NoResponse
  /\ airtableResponses = <<>>
  /\ airtableFetched = <<>>
  /\ tablesResponse = NoResponse
  /\ HandlerOff
  /\ EngineOff

\* airtable-data.js:2-48, up to the await of the fetch of the table as it
\* was named; the destructuring of line 15 throws outside the try when the
\* body was not parsed
AirtableDataRequest(r) ==
  /\ airtablePc = "idle"
  /\ airtableReq' = r
  /\ UNCHANGED <<airtableReply, tablesResponse, handlerVars, engineVars>>
  /\ IF r.method = "OPTIONS"
       THEN /\ airtableResponses' =
                 Append(airtableResponses, [status |-> 200, body |-> [ended |-> TRUE]])
            /\ airtablePc' = "done"
            /\ UNCHANGED <<airtableCalls, airtableFetched>>
     ELSE IF r.method # "POST"
       THEN /\ airtableResponses' =
                 Append(airtableResponses,
                        [status |-> 405, body |-> [error |-> "Method not allowed"]])
            /\ airtablePc' = "done"
            /\ UNCHANGED <<airtableCalls, airtableFetched>>
     ELSE IF ~r.hasBody
       THEN /\ airtablePc' = "crashed"
            /\ UNCHANGED <<airtableResponses, airtableCalls, airtableFetched>>
     ELSE IF \E field \in {"apiKey", "baseId", "tableName"} :
               ~Has(r.body, field) \/ r.body[field] = ""
       THEN /\ airtableResponses' =
                 Append(airtableResponses,
                        [status |-> 400,
                         body   |-> [success |-> FALSE,
                                     error   |-> "API Key, Base ID, and Table Name are required"]])
            /\ airtablePc' = "done"
            /\ UNCHANGED <<airtableCalls, airtableFetched>>
       ELSE /\ airtableCalls' = airtableCalls + 1
            /\ airtableFetched' =
                 Append(airtableFetched, [table |-> r.body.tableName])
            /\ airtablePc' = "awaitingExact"
            /\ UNCHANGED airtableResponses

\* airtable-data.js:55-70 and 137-165: the reply to the fetch of the table
\* as it was named; a table-not-found error leads to the call for the table
\* list, every other reply ends the handler
ExactReply(rep) ==
  /\ airtablePc = "awaitingExact"
  /\ airtableReply' = rep
  /\ UNCHANGED <<airtableReq, tablesResponse, handlerVars, engineVars>>
  /\ IF rep.rejected
       THEN /\ airtableResponses' = Append(airtableResponses, DataFailure)
            /\ airtablePc' = "done"
            /\ UNCHANGED <<airtableCalls, airtableFetched>>
     ELSE IF /\ rep.status \notin 200..299
             /\ Has(rep.body, "error")
             /\ \/ /\ Has(rep.body.error, "type")
                   /\ rep.body.error.type = "TABLE_NOT_FOUND"
                \/ /\ Has(rep.body.error, "message")
                   /\ Includes(rep.body.error.message, "Could not find table")
       THEN /\ airtableCalls' = airtableCalls + 1
            /\ airtableFetched' =
                 Append(airtableFetched, [tablesOf |-> airtableReq.body.baseId])
            /\ airtablePc' = "awaitingTables"
            /\ UNCHANGED airtableResponses
       ELSE /\ airtableResponses' =
                 Append(airtableResponses,
                        DataResponse(rep, airtableReq.body.tableName, ""))
            /\ airtablePc' = "done"
            /\ UNCHANGED <<airtableCalls, airtableFetched>>

\* airtable-data.js:72-114 and 137-143: the reply to the call for the table
\* list; a best match leads to the fetch of that table, and without one the
\* error of the first fetch is the response
TablesReply(rep) ==
  /\ airtablePc = "awaitingTables"
  /\ tablesResponse' = rep
  /\ UNCHANGED <<airtableReq, airtableReply, handlerVars, engineVars>>
  /\ LET tables == IF Has(rep.body, "tables") THEN rep.body.tables ELSE <<>>
         bestMatch ==
           MatchFrom(tables, 1,
                     [bestMatch |-> "", bestScore |-> Zero, found |-> FALSE],
                     normalizeTableName(airtableReq.body.tableName))
     IN  IF rep.rejected
           THEN /\ airtableResponses' = Append(airtableResponses, DataFailure)
                /\ airtablePc' = "done"
                /\ UNCHANGED <<airtableCalls, airtableFetched>>
         ELSE IF rep.status \in 200..299 /\ bestMatch # ""
           THEN /\ airtableCalls' = airtableCalls + 1
                /\ airtableFetched' = Append(airtableFetched, [table |-> bestMatch])
                /\ airtablePc' = "awaitingRetry"
                /\ UNCHANGED airtableResponses
           ELSE /\ airtableResponses' =
                     Append(airtableResponses,
                            DataResponse(airtableReply,
                                         airtableReq.body.tableName, ""))
                /\ airtablePc' = "done"
                /\ UNCHANGED <<airtableCalls, airtableFetched>>

\* airtable-data.js:114-157: the reply to the fetch of the best match takes
\* the place of the first reply and ends the handler
RetryReply(rep) ==
  /\ airtablePc = "awaitingRetry"
  /\ airtableReply' = rep
  /\ airtablePc' = "done"
  /\ airtableResponses' =
       Append(airtableResponses,
              IF rep.rejected THEN DataFailure
              ELSE DataResponse(rep, airtableReq.body.tableName,
                                airtableFetched[Len(airtableFetched)].table))
  /\ UNCHANGED <<airtableReq, airtableCalls, airtableFetched, tablesResponse>>
  /\ UNCHANGED <<handlerVars, engineVars>>

DataNext ==
  \/ \E r \in DataRequests : AirtableDataRequest(r)
  \/ \E rep \in DataReplies : ExactReply(rep)
  \/ \E rep \in DataReplies : TablesReply(rep)
  \/ \E rep \in DataReplies : RetryReply(rep)

SpecAirtableData == DataInit /\ [][DataNext]_vars

\* ------------------------------------------------------------------------
\* Properties of the handlers (Spec)
\* ------------------------------------------------------------------------

LastResponse == responses[Len(responses)]

\* the completion service failed: the call threw, the response was not a
\* success, or the success carried no content
ServiceFailed(rep) ==
  \/ rep.rejected
  \/ ~rep.ok
  \/ ~Has(rep.body, "choices")
  \/ ReplyContent(rep) = ""

\* C1: whenever the completion service failed, the response is not a 5xx and
\* its answer is the deterministic fallback answer for the question.
C1_FailureGivesFallback ==
  (pc = "done" /\ reply # NoReply /\ ServiceFailed(reply)) =>
    /\ LastResponse.status < 500
    /\ Has(LastResponse.body, "answer")
    /\ LastResponse.body.answer =
         generateSmartAnswer(req.body.question, knowledgeBase)

\* ------------------------------------------------------------------------
\* Properties of the answer engine (SpecEngine)
\* ------------------------------------------------------------------------

Lowered == ToLowerCase(question)

Faqs == document.faqs

Models == document.dataStrategy.predictiveModels

\* the score as the fraction num / max(1, den)
Denominator(s) == IF s.den = 0 THEN 1 ELSE s.den

ScorePositive(s) == s.num > 0

AboveThreeTenths(s) == 10 * s.num > 3 * Denominator(s)

AboveHalf(s) == 2 * s.num > Denominator(s)

ScoreAtLeast(s, t) == s.num * Denominator(t) >= t.num * Denominator(s)

\* the scores of the FAQs, in document order, for the lowercased question q
Scores(q) == [i \in 1..Len(Faqs) |-> Score(q, Faqs[i])]

\* the first position of maximal score in a non-empty list of scores
BestIndex(scores) ==
  CHOOSE i \in 1..Len(scores) :
    /\ \A j \in 1..Len(scores) : ScoreAtLeast(scores[i], scores[j])
    /\ \A j \in 1..(i - 1) : ~ScoreAtLeast(scores[j], scores[i])

HasModelNamed(part) == \E i \in 1..Len(Models) : Includes(Models[i].name, part)

ModelNamed(part) ==
  Models[CHOOSE i \in 1..Len(Models) :
           /\ Includes(Models[i].name, part)
           /\ \A j \in 1..(i - 1) : ~Includes(Models[j].name, part)]

BrazeOf(kb) == kb.categories[FindBraze(kb)[1]].tools[FindBraze(kb)[2]]

\* the rules of the fallback answer, in the order of precedence: 1 the
\* confident FAQ, 2-7 the topic templates (lead scoring, churn, channels,
\* attribution, compliance, data flow), 8 the retained lower-scoring FAQ,
\* 9 the Braze menu, 10 the generic menu
Rules == 1..10

TopicRules == 2..7

\* rule k applies to the lowercased question q
RuleApplies(k, q) ==
  CASE k = 1 -> match.bestFaq # 0 /\ AboveHalf(match.bestScore)
    [] k = 2 -> Includes(q, "lead scor") /\ HasModelNamed("Lead Score")
    [] k = 3 -> Includes(q, "churn") /\ HasModelNamed("Churn")
    [] k = 4 -> /\ Includes(q, "braze") /\ Includes(q, "channel")
                /\ BrazeHasChannels(document)
    [] k = 5 -> \/ Includes(q, "mta") \/ Includes(q, "mmm")
                \/ Includes(q, "attribution")
    [] k = 6 -> \/ Includes(q, "gdpr") \/ Includes(q, "compliance")
                \/ Includes(q, "privacy")
    [] k = 7 -> /\ Includes(q, "data")
                /\ (Includes(q, "collect") \/ Includes(q, "flow"))
    [] k = 8 -> match.bestFaq # 0
    [] k = 9 -> \/ Includes(q, "braze") \/ Includes(q, "campaign")
                \/ Includes(q, "canvas")
    [] OTHER -> TRUE

RuleAnswer(k) ==
  CASE k = 1 -> FaqAnswer(Faqs[match.bestFaq])
    [] k = 2 -> LeadScoringAnswer(ModelNamed("Lead Score"))
    [] k = 3 -> ChurnAnswer(ModelNamed("Churn"))
    [] k = 4 -> ChannelsAnswer(BrazeOf(document))
    [] k = 5 -> AttributionAnswer(document)
    [] k = 6 -> ComplianceAnswer(document)
    [] k = 7 -> DataFlowAnswer(document)
    [] k = 8 -> FaqAnswer(Faqs[match.bestFaq])
    [] k = 9 -> BrazeMenu
    [] OTHER -> GenericMenu

\* the rules that apply, and the first of a set of rules
Applicable(q) == {k \in Rules : RuleApplies(k, q)}

First(rules) == CHOOSE k \in rules : \A j \in rules : k <= j

NoTopicApplies(q) == \A k \in TopicRules : ~RuleApplies(k, q)

NoConfidentFaq(scores) == \A i \in 1..Len(scores) : ~AboveHalf(scores[i])

FaqAnswers == {FaqAnswer(Faqs[i]) : i \in 1..Len(Faqs)}

Menus == {BrazeMenu, GenericMenu}

\* C2: the fallback answer is the answer of the first rule, in the order of
\* precedence, that applies; no later rule's answer is returned.
C2_FirstApplicableRuleWins ==
  phase = "answered" =>
    LET q == Lowered
    IN  answer = RuleAnswer(First(Applicable(q)))

\* a confident FAQ and a topic template both apply, and the FAQ is rendered
C2_Witness ==
  /\ phase = "answered"
  /\ LET q == Lowered
     IN  /\ RuleApplies(1, q)
         /\ \E k \in TopicRules : RuleApplies(k, q) /\ RuleAnswer(k) # RuleAnswer(1)
  /\ answer = RuleAnswer(1)

\* C3 as stated: with no FAQ above 0.5 and no topic template, the best FAQ
\* is rendered whenever some FAQ scores above 0, and a menu is returned only
\* when every FAQ scores 0.
C3_AnyPositiveScoreRenders ==
  phase = "answered" =>
    LET q      == Lowered
        scores == Scores(q)
    IN  (NoConfidentFaq(scores) /\ NoTopicApplies(q)) =>
          /\ (\E i \in 1..Len(scores) : ScorePositive(scores[i]))
               => answer = FaqAnswer(Faqs[BestIndex(scores)])
          /\ answer \in Menus
               => \A i \in 1..Len(scores) : ~ScorePositive(scores[i])

\* C3 amended: with no FAQ above 0.5 and no topic template, the best FAQ is
\* rendered whenever some FAQ scores above 0.3, and a menu is returned only
\* when every FAQ scores 0.3 or less.
C3_ScoreAboveFloorRenders ==
  phase = "answered" =>
    LET q      == Lowered
        scores == Scores(q)
    IN  (NoConfidentFaq(scores) /\ NoTopicApplies(q)) =>
          /\ (\E i \in 1..Len(scores) : AboveThreeTenths(scores[i]))
               => answer = FaqAnswer(Faqs[BestIndex(scores)])
          /\ answer \in Menus
               => \A i \in 1..Len(scores) : ~AboveThreeTenths(scores[i])

\* an FAQ scoring above 0.3 and at most 0.5 is rendered by rule 3
C3_Witness ==
  /\ phase = "answered"
  /\ LET q      == Lowered
         scores == Scores(q)
     IN  /\ NoConfidentFaq(scores)
         /\ NoTopicApplies(q)
         /\ \E i \in 1..Len(scores) : AboveThreeTenths(scores[i])
         /\ answer = FaqAnswer(Faqs[BestIndex(scores)])

\* the question has no whitespace-separated token longer than 3 characters
NoLongToken ==
  LET tokens == SplitWhitespace(question)
  IN  \A i \in 1..Len(tokens) : Len(tokens[i]) <= 3

\* C4 as stated: a question without a token longer than 3 characters never
\* gets an FAQ and always gets the generic menu.
C4_ShortQuestionGetsGenericMenu ==
  (phase = "answered" /\ NoLongToken) =>
    answer \notin FaqAnswers /\ answer = GenericMenu

\* C4 amended: a question without a token longer than 3 characters never
\* gets an FAQ; it gets the attribution template when it contains "mta" or
\* "mmm" and the generic menu otherwise.
C4_ShortQuestionGetsMenuOrAttribution ==
  (phase = "answered" /\ NoLongToken) =>
    LET q == Lowered
    IN  /\ answer \notin FaqAnswers
        /\ answer = IF Includes(q, "mta") \/ Includes(q, "mmm")
                    THEN AttributionAnswer(document)
                    ELSE GenericMenu

\* a short question that occurs in an FAQ of the document gets the menu
C4_Witness ==
  /\ phase = "answered"
  /\ NoLongToken
  /\ \E i \in 1..Len(Faqs) : Includes(ToLowerCase(Faqs[i].question), Lowered)
  /\ answer = GenericMenu

AsksBrazeChannels(q) == Includes(q, "braze") /\ Includes(q, "channel")

C6_SameTopicsInBothPaths ==
  phase \in {"answered", "assembled"} =>
    LET q == Lowered
    IN  /\ (AnswerAsksLeadScoring(q) \/ AnswerAsksChurn(q))
             <=> ContextAsksPredictive(q)
        /\ AnswerAsksChannels(q) <=> ContextAsksTools(q)
        /\ AnswerAsksAttribution(q) <=> ContextAsksAttribution(q)
        /\ AnswerAsksCompliance(q) <=> ContextAsksCompliance(q)
        /\ AnswerAsksDataFlow(q) <=> ContextAsksDataFlow(q)

\* the DATA_FLOW tag of the routing table
TaggedDataFlow(q) ==
  \/ Includes(q, "data") /\ (Includes(q, "collect") \/ Includes(q, "flow"))
  \/ Includes(q, "segment")

\* C7: a focused context contains the data-flows section only when the
\* question is tagged DATA_FLOW.
C7_DataFlowsOnlyWhenTagged ==
  (phase = "assembled" /\ assembled # buildContext(document)) =>
    (Includes(assembled, "Data Flows:\n") => TaggedDataFlow(Lowered))

\* C8: the FAQ selected as best match is the first, in document order, of
\* those with the maximal score.
C8_EarliestOfTiedWins ==
  (phase = "answered" /\ match.bestFaq # 0) =>
    match.bestFaq = BestIndex(Scores(Lowered))

\* two different FAQs share the maximal score and the earlier one is selected
C8_Witness ==
  /\ phase = "answered"
  /\ match.bestFaq # 0
  /\ LET scores == Scores(Lowered)
     IN  \E j \in 1..Len(scores) :
           /\ j > match.bestFaq
           /\ Faqs[j] # Faqs[match.bestFaq]
           /\ ScoreAtLeast(scores[j], scores[match.bestFaq])
           /\ ScoreAtLeast(scores[match.bestFaq], scores[j])

\* a JavaScript number that is a number, between 0 and 1
InUnitInterval(x) == x.den > 0 /\ 0 <= x.num /\ x.num <= x.den

\* C9: every score is a number between 0 and 1, it is 0 when the question
\* has no significant token, and the retained best score is between 0 and 1.
C9_ScoresInUnitInterval ==
  phase = "answered" =>
    LET q      == Lowered
        scores == Scores(q)
    IN  /\ \A i \in 1..Len(scores) :
             /\ InUnitInterval(scores[i])
             /\ Len(SignificantWords(q)) = 0 => scores[i].num = 0
        /\ InUnitInterval(match.bestScore)

\* no FAQ is relevant to the question and no topic trigger fires
NothingFocused(q) ==
  /\ RelevantFaqs(q, document) = <<>>
  /\ ~ContextAsksPredictive(q)
  /\ ~ContextAsksTools(q)
  /\ ~ContextAsksAttribution(q)
  /\ ~ContextAsksCompliance(q)
  /\ ~ContextAsksDataFlow(q)

\* C10: the assembled context is never empty; when no FAQ is relevant and no
\* topic trigger fires it is the rendering of the whole document.
C10_ContextNeverEmpty ==
  phase = "assembled" =>
    /\ assembled # ""
    /\ NothingFocused(Lowered) => assembled = buildContext(document)

\* nothing is focused and the whole document is the context
C10_Witness ==
  /\ phase = "assembled"
  /\ NothingFocused(Lowered)
  /\ assembled = buildContext(document)
  /\ assembled # ""

\* no tool of the document is listed in the tools section for the question
NoToolListed(q) ==
  \A c \in 1..Len(document.categories) :
    \A t \in 1..Len(document.categories[c].tools) :
      ~ToolIsListed(q, document.categories[c].tools[t])

\* every topic the question triggers has no data, and no FAQ is relevant
NoKnowledgeContent(q) ==
  /\ RelevantFaqs(q, document) = <<>>
  /\ ~ContextAsksAttribution(q)
  /\ ~ContextAsksCompliance(q)
  /\ ContextAsksPredictive(q) => Len(Models) = 0
  /\ ContextAsksTools(q) => NoToolListed(q)
  /\ ContextAsksDataFlow(q) => Len(document.dataFlows) = 0

\* C11: a focused context has no header of a section whose data is empty,
\* and a context without any knowledge content is the rendering of the whole
\* document.
C11_NoHeaderWithoutData ==
  phase = "assembled" =>
    LET q == Lowered
    IN  /\ (~NothingFocused(q) /\ Len(document.dataFlows) = 0)
             => ~Includes(assembled, "Data Flows:\n")
        /\ (~NothingFocused(q) /\ Len(Models) = 0)
             => ~Includes(assembled, "Predictive Models:\n")
        /\ (~NothingFocused(q) /\ NoToolListed(q))
             => ~Includes(assembled, "Tools:\n")
        /\ NoKnowledgeContent(q) => assembled = buildContext(document)

\* the headers of the sections of a focused context, in the fixed order
SectionHeaders ==
  <<"Relevant FAQs:\n", "Predictive Models:\n", "Tools:\n",
    "Measurement Framework: ", "Compliance: Regulations: ", "Data Flows:\n">>

\* the positions of s at which a line starts
LineStarts(s) ==
  {1} \cup {i + 1 : i \in {j \in 1..(Len(s) - 1) : CharAt(s, j) = "\n"}}

\* the text h stands in s at position p
StandsAt(s, p, h) ==
  p + Len(h) - 1 <= Len(s) /\ SubSeq(s, p, p + Len(h) - 1) = h

\* the first line start of s at which the text h stands, 0 if there is none
HeaderPosition(s, starts, h) ==
  LET at == {p \in starts : StandsAt(s, p, h)}
  IN  IF at = {} THEN 0 ELSE CHOOSE p \in at : \A r \in at : p <= r

\* the question and the FAQ share a significant token
SharesToken(q, faq) ==
  \E i \in 1..Len(SignificantWords(q)) :
    \/ Includes(ToLowerCase(faq.question), SignificantWords(q)[i])
    \/ Includes(ToLowerCase(faq.answer), SignificantWords(q)[i])

\* the FAQs a focused context shows: the first three sharing a token
ShownFaqs(q) ==
  LET sharing == SelectSeq(Faqs, LAMBDA faq : SharesToken(q, faq))
  IN  SubSeq(sharing, 1, IF Len(sharing) > 3 THEN 3 ELSE Len(sharing))

\* the text of the FAQ section showing the given FAQs
ShownFaqText(shown) ==
  IF Len(shown) = 0 THEN ""
  ELSE "Relevant FAQs:\n"
         \o ConcatAll([i \in 1..Len(shown) |->
              "Q: " \o shown[i].question \o "\nA: " \o shown[i].answer \o "\n\n"])

\* the number of lines of s that begin with the text h
LinesWith(s, starts, h) ==
  Cardinality({p \in starts : StandsAt(s, p, h)})

PostWithoutQuestion ==
  /\ endpoint \in {"chat", "legacyChat"}
  /\ req.method = "POST"
  /\ ~req.hasBody \/ QuestionMissing(req)

\* C13: a chat request without a question is answered 400, and the handler
\* has then loaded no document, computed no context or answer and called
\* the completion service not once.
C13_MissingQuestionIs400 ==
  PostWithoutQuestion =>
    /\ pc = "done"
    /\ Len(responses) > 0
    /\ LastResponse.status = 400
    /\ ~Has(LastResponse.body, "answer")
    /\ knowledgeBase = NoDocument
    /\ context = ""
    /\ completionCalls = 0

\* the request reaches the read of the knowledge document and the read fails
LoadFailed ==
  /\ endpoint \in {"chat", "legacyChat"}
  /\ req.method = "POST"
  /\ req.hasBody
  /\ ~QuestionMissing(req)
  /\ endpoint = "legacyChat" => openaiKey
  /\ ~kbFile.readable

\* C14: when the knowledge document fails to load the request ends with a
\* 5xx response that carries no answer; no document is kept, no context is
\* built and the completion service is not called.
C14_LoadFailureIs5xx ==
  LoadFailed =>
    /\ pc = "done"
    /\ Len(responses) > 0
    /\ LastResponse.status >= 500
    /\ ~Has(LastResponse.body, "answer")
    /\ knowledgeBase = NoDocument
    /\ context = ""
    /\ completionCalls = 0

\* the load failed while a completion service was configured
C14_Witness ==
  /\ LoadFailed
  /\ endpoint = "chat"
  /\ openaiKey
  /\ pc = "done"
  /\ LastResponse = [status |-> 500,
                     body |-> [error |-> "Failed to load knowledge base"]]

\* the completion service is called at most once in a request
AtMostOneCall == completionCalls <= 1

\* when the call is issued the context of the request is assembled
CallAfterContext ==
  completionCalls > 0 =>
    /\ context # ""
    /\ context = buildFocusedContext(req.body.question, knowledgeBase)

\* C15: in a request to the chat handler the completion service is called at
\* most once, the call follows the assembly of the context, and a failed
\* call is followed by the deterministic fallback answer, with no second call.
C15_OneCallThenFallback ==
  endpoint = "chat" =>
    /\ AtMostOneCall
    /\ CallAfterContext
    /\ (pc = "done" /\ reply # NoReply /\ ServiceFailed(reply)) =>
         /\ completionCalls = 1
         /\ LastResponse.body = FallbackBody(req.body.question, knowledgeBase)

\* the last response is a successful answer of a chat handler
AnsweredChat ==
  /\ endpoint \in {"chat", "legacyChat"}
  /\ pc = "done"
  /\ Len(responses) > 0
  /\ LastResponse.status = 200
  /\ Has(LastResponse.body, "answer")

\* the answer is the non-empty content of the service, used verbatim
AnswerIsVerbatim ==
  /\ reply # NoReply
  /\ ~ServiceFailed(reply)
  /\ LastResponse.body.answer = ReplyContent(reply)

\* the answer is the deterministic renderer's: no key, or the service failed
AnswerIsRendered ==
  /\ ~openaiKey \/ (reply # NoReply /\ ServiceFailed(reply))
  /\ LastResponse.body.answer =
       generateSmartAnswer(req.body.question, knowledgeBase)

\* C16: a successful chat response is tagged with the completion model
\* exactly when its answer is the service's content, and with 'fallback'
\* exactly when its answer is the deterministic renderer's.
C16_ModelTagTellsOrigin ==
  AnsweredChat =>
    /\ Has(LastResponse.body, "model")
    /\ LastResponse.body.model = "gpt-4o-mini" <=> AnswerIsVerbatim
    /\ LastResponse.body.model = "fallback" <=> AnswerIsRendered

DataIntent(q) ==
  LET lowered == ToLowerCase(q)
  IN  /\ Includes(lowered, "campaign")
      /\ \E verb \in {"how many", "count", "total", "list", "show", "what",
                       "which", "recent", "latest", "last", "new"} :
            Includes(lowered, verb)

\* the request carried a non-empty snapshot and a question with a data intent
CarriesLiveData ==
  /\ req.method = "POST"
  /\ req.hasBody
  /\ Has(req.body, "question")
  /\ Has(req.body, "liveData")
  /\ Len(req.body.liveData) > 0
  /\ DataIntent(req.body.question)

\* C19: a request with a non-empty snapshot of live records and a question
\* with a data intent is answered from the snapshot: its deterministic
\* answer is not the answer of the FAQ and topic rules.
C19_LiveDataAnsweredFirst ==
  (/\ pc = "done"
   /\ CarriesLiveData
   /\ Has(LastResponse.body, "answer")
   /\ LastResponse.body.model = "fallback") =>
    LastResponse.body.answer #
      generateSmartAnswer(req.body.question, knowledgeBase)

\* the connection test without a table name got a permission error
PermissionError ==
  /\ airtablePc = "done"
  /\ ~Has(airtableReq.body, "tableName")
  /\ airtableReply # NoResponse
  /\ ~airtableReply.rejected
  /\ Has(airtableReply.body, "error")
  /\ LET err == airtableReply.body.error
     IN  \/ Has(err, "type") /\ err.type = "INVALID_PERMISSIONS_OR_MODEL_NOT_FOUND"
         \/ Has(err, "message") /\ Includes(ToLowerCase(err.message), "permission")

\* C20: in the connection test without a table name, an Airtable error of
\* type INVALID_PERMISSIONS_OR_MODEL_NOT_FOUND, or with a message about
\* permissions, is answered 403 "Permission denied", never 401 or 404.
C20_PermissionErrorIs403 ==
  PermissionError =>
    LET last == airtableResponses[Len(airtableResponses)]
    IN  /\ last.status = 403
        /\ Includes(last.body.error, "Permission denied")

\* the reply is an error response that says the table was not found
SaysTableNotFound(rep) ==
  /\ ~rep.rejected
  /\ rep.status >= 400
  /\ Has(rep.body, "error")
  /\ \/ Has(rep.body.error, "type") /\ rep.body.error.type = "TABLE_NOT_FOUND"
     \/ /\ Has(rep.body.error, "message")
        /\ Includes(rep.body.error.message, "Could not find table")

\* the listed table at position i has the normalized name of the request
SameNormalizedName(rep, i) ==
  normalizeTableName(rep.body.tables[i].name) =
    normalizeTableName(airtableReq.body.tableName)

\* the table list came back with a table of the requested normalized name
ListsRequestedTable(rep) ==
  /\ ~rep.rejected
  /\ rep.status = 200
  /\ Has(rep.body, "tables")
  /\ \E i \in DOMAIN rep.body.tables : SameNormalizedName(rep, i)

\* the retry came back and was not a success
RetryFailed ==
  /\ airtablePc = "done"
  /\ Len(airtableFetched) = 3
  /\ airtableReply.rejected \/ airtableReply.status >= 400

\* C21: in the Airtable data fetch the table list is asked for only after
\* the fetch of the table as named failed with a table-not-found error; a
\* listed table whose normalized name equals the normalized requested name
\* is the one fetched next, wherever it stands in the list; a request makes
\* at most three calls, the exact fetch, the table list and one retry, in
\* this order; and a failed retry is answered with the retry's own error
\* status and without records.
C21_FuzzyResolution ==
  [][/\ airtablePc' = "awaitingTables" =>
          /\ airtablePc = "awaitingExact"
          /\ SaysTableNotFound(airtableReply')
     /\ (airtablePc = "awaitingTables" /\ ListsRequestedTable(tablesResponse')) =>
          /\ airtablePc' = "awaitingRetry"
          /\ normalizeTableName(airtableFetched'[3].table) =
               normalizeTableName(airtableReq.body.tableName)
     /\ airtableCalls' <= 3
     /\ Len(airtableFetched') = airtableCalls'
     /\ \A i \in DOMAIN airtableFetched' :
          IF i = 2 THEN Has(airtableFetched'[i], "tablesOf")
                   ELSE Has(airtableFetched'[i], "table")
     /\ RetryFailed' =>
          LET last == airtableResponses'[Len(airtableResponses')]
          IN  /\ Len(airtableResponses') = 1
              /\ last.status = IF airtableReply'.rejected THEN 500
                               ELSE airtableReply'.status
              /\ last.body.success = FALSE
              /\ ~Has(last.body, "records")]_vars

\* a retry that failed after the table of the requested normalized name was
\* found behind a table that only resembles it
C21_Witness ==
  /\ RetryFailed
  /\ airtableReq.body.tableName = "leads"
  /\ Len(tablesResponse.body.tables) >= 2
  /\ tablesResponse.body.tables[1].name = "Leads 2024"
  /\ tablesResponse.body.tables[2].name = "& Leads!"
  /\ airtableFetched[3].table = "& Leads!"
  /\ airtableReply.status = 403
  /\ airtableResponses[1].status = 403

\* the data fetch is over: it responded, or it threw out of the handler
DataRequestOver == airtablePc \in {"done", "crashed"}

\* a POST of the data fetch without one of apiKey, baseId and tableName
MissesRequiredField ==
  /\ airtableReq.method = "POST"
  /\ \/ ~airtableReq.hasBody
     \/ \E field \in {"apiKey", "baseId", "tableName"} :
          ~Has(airtableReq.body, field) \/ airtableReq.body[field] = ""

\* C22: a handler sends exactly one response per request on every path;
\* OPTIONS is answered 200 and every other method but POST 405, and a POST
\* that misses a required field 400, each without an outbound call.
C22_OneResponseMethodFirst ==
  DataRequestOver =>
    /\ Len(airtableResponses) = 1
    /\ airtableReq.method = "OPTIONS" =>
         airtableResponses[1].status = 200 /\ airtableCalls = 0
    /\ airtableReq.method \notin {"OPTIONS", "POST"} =>
         airtableResponses[1].status = 405 /\ airtableCalls = 0
    /\ MissesRequiredField =>
         airtableResponses[1].status = 400 /\ airtableCalls = 0

====
